---------------------------- MODULE Spec2Model ----------------------------
(***************************************************************************)
(* ED Copilot (src/app.py): the PubMed query construction, the retrieval   *)
(* pipeline, the evidence assembly and the chat transcript of one          *)
(* Streamlit session, as a state machine.                                  *)
(*                                                                         *)
(* Text is modelled as what Python sees: a string is the sequence of its   *)
(* characters (one-character TLA+ strings), so that strip, lower, the      *)
(* regular-expression substitutions, split and join are computed as the    *)
(* code computes them.  Characters are ASCII.                              *)
(*                                                                         *)
(* Spec    one session: Streamlit script runs (quick-prompt callback,      *)
(*         "Clear chat", chat input) and the steps of a turn, with every   *)
(*         external call answering nondeterministically.                   *)
(* SpecFn  the pure functions applied to inputs drawn from bounded sets.   *)
(***************************************************************************)
EXTENDS Integers, Sequences, FiniteSets, TLC

VARIABLES
  messages,        \* st.session_state["messages"]: the transcript
  pending_prompt,  \* st.session_state["pending_prompt"]: <<>> is None, <<s>> is s
  last_hits,       \* st.session_state["last_hits"]
  quick_shown,     \* the "Quick prompt" selectbox was rendered by the last script run
  pc,              \* position of the running script in the turn; "idle" between runs
  prompt,          \* the turn's question
  retmax,          \* value of the "PubMed results to pull" slider for this run
  candidates,      \* pubmed_search: the candidate query strings
  idx,             \* pubmed_search: position of the loop in candidates
  calls,           \* the terms of the ESearch requests issued by this turn, in order
  replies,         \* the idlist each of those requests returned
  cache_hit,       \* pubmed_search was answered by st.cache_data, its body not run
  pmids,           \* what pubmed_search returned
  summaries,       \* what pubmed_summaries returned
  abstract_map,    \* what pubmed_abstracts returned, or {} 
  meta_context,    \* evidence text handed to generate_answer
  allowed_pmids,   \* allowed PMID list handed to generate_answer
  request,         \* <<>> or <<r>>: the chat.completions.create request in flight
  outcome,         \* how the last turn of the session ended
  before,          \* the transcript when the current (last) turn began
  fn_in,           \* SpecFn: the function under study and its arguments
  fn_out           \* SpecFn: <<>> or <<its result>>

vars == <<messages, pending_prompt, last_hits, quick_shown, pc, prompt, retmax,
          candidates, idx, calls, replies, cache_hit, pmids, summaries,
          abstract_map, meta_context, allowed_pmids, request, outcome, before,
          fn_in, fn_out>>

-----------------------------------------------------------------------------
(* Characters and Python's string operations                               *)

LowerSeq == <<"a","b","c","d","e","f","g","h","i","j","k","l","m",
              "n","o","p","q","r","s","t","u","v","w","x","y","z">>
UpperSeq == <<"A","B","C","D","E","F","G","H","I","J","K","L","M",
              "N","O","P","Q","R","S","T","U","V","W","X","Y","Z">>
LowerChars == {LowerSeq[i] : i \in 1..26}
UpperChars == {UpperSeq[i] : i \in 1..26}
Digits     == {"0","1","2","3","4","5","6","7","8","9"}
\* \s of the re module and the characters str.strip() and str.split() remove
WhiteSpace == {" ", "\t", "\n"}
\* \w of the re module: what \b separates from the rest
WordChars  == LowerChars \cup UpperChars \cup Digits \cup {"_"}
AlnumChars == LowerChars \cup UpperChars \cup Digits

Min2(a, b) == IF a <= b THEN a ELSE b
Max2(a, b) == IF a >= b THEN a ELSE b

\* s[start:stop] of a Python sequence, negative indices counted from the end
PyIndex(n, len) == IF n < 0 THEN Max2(n + len, 0) ELSE Min2(n, len)
PySlice(s, start, stop) == SubSeq(s, PyIndex(start, Len(s)) + 1, PyIndex(stop, Len(s)))

\* str.strip()
Strip(s) ==
  LET keep == {i \in 1..Len(s) : s[i] \notin WhiteSpace}
  IN  IF keep = {} THEN <<>>
      ELSE SubSeq(s, CHOOSE i \in keep : \A j \in keep : i <= j,
                     CHOOSE i \in keep : \A j \in keep : i >= j)

\* str.rstrip()
RStrip(s) ==
  LET keep == {i \in 1..Len(s) : s[i] \notin WhiteSpace}
  IN  IF keep = {} THEN <<>>
      ELSE SubSeq(s, 1, CHOOSE i \in keep : \A j \in keep : i >= j)

\* str.lower()
ToLower(c) == IF c \in UpperChars
              THEN LowerSeq[CHOOSE i \in 1..26 : UpperSeq[i] = c] ELSE c
Lower(s) == [i \in 1..Len(s) |-> ToLower(s[i])]

\* sep.join(parts)
RECURSIVE Join(_, _)
Join(parts, sep) ==
  IF parts = <<>> THEN <<>>
  ELSE IF Len(parts) = 1 THEN parts[1]
  ELSE parts[1] \o sep \o Join(Tail(parts), sep)

\* the maximal runs of characters of `keep` in s, left to right:
\* str.split() with keep = non-whitespace, re.findall(r"[A-Za-z0-9]+", s)
Runs(s, keep) ==
  LET starts == {i \in 1..Len(s) : s[i] \in keep /\ (i = 1 \/ s[i - 1] \notin keep)}
      ends   == {i \in 1..Len(s) : s[i] \in keep /\ (i = Len(s) \/ s[i + 1] \notin keep)}
      nth(S, n) == CHOOSE i \in S : Cardinality({j \in S : j < i}) = n - 1
  IN  [n \in 1..Cardinality(starts) |-> SubSeq(s, nth(starts, n), nth(ends, n))]
AllChars(s) == {s[i] : i \in 1..Len(s)}
Split(s) == Runs(s, AllChars(s) \ WhiteSpace)
FindAllAlnum(s) == Runs(s, AlnumChars)

\* the text of s from position i on with the non-overlapping matches replaced
\* by new, found left to right: hits are the positions where a match begins,
\* n is its length
RECURSIVE SubFrom(_, _, _, _, _)
SubFrom(s, hits, n, new, i) ==
  LET later == {j \in hits : j >= i}
  IN  IF later = {} THEN SubSeq(s, i, Len(s))
      ELSE LET m == CHOOSE j \in later : \A k \in later : j <= k
           IN  SubSeq(s, i, m - 1) \o new \o SubFrom(s, hits, n, new, m + n)

\* s.replace(old, new)
Replace(s, old, new) ==
  SubFrom(s, {j \in 1..(Len(s) - Len(old) + 1) : SubSeq(s, j, j + Len(old) - 1) = old},
          Len(old), new, 1)

\* re.sub(rf"\b{k}\b", v, s): k starts and ends with a word character, so \b
\* holds before it when no word character precedes and after it when none follows
MatchWordAt(s, k, i) ==
  /\ i + Len(k) - 1 <= Len(s)
  /\ SubSeq(s, i, i + Len(k) - 1) = k
  /\ (i = 1 \/ s[i - 1] \notin WordChars)
  /\ (i + Len(k) > Len(s) \/ s[i + Len(k)] \notin WordChars)
SubWord(s, k, v) ==
  SubFrom(s, {j \in 1..Len(s) : MatchWordAt(s, k, j)}, Len(k), v, 1)

-----------------------------------------------------------------------------
(* PubMed helpers: the query normaliser                                    *)

\* STOPWORDS (app.py:78-85), each word as its sequence of characters.
STOPWORDS ==
  { <<"a">>, <<"a","d","m","i","s","s","i","o","n">>, <<"a","d","u","l","t">>, <<"a","n">>,
    <<"a","n","d">>, <<"a","p","p","r","o","a","c","h">>, <<"a","t">>, <<"b","e","s","t">>,
    <<"b","y">>, <<"c","a","n">>, <<"c","o","n","s","i","d","e","r">>, <<"c","o","u","l","d">>,
    <<"c","r","i","t","e","r","i","a">>, <<"d","d","x">>, <<"d","i","d">>,
    <<"d","i","s","p","o","s","i","t","i","o","n">>, <<"d","o">>, <<"d","o","e","s">>,
    <<"d","x">>, <<"e","d">>, <<"e","m">>, <<"e","r">>,
    <<"e","v","a","l","u","a","t","i","o","n">>, <<"f","e","m","a","l","e">>, <<"f","o","r">>,
    <<"f","r","o","m">>, <<"h","o","w">>, <<"i","n">>, <<"i","n","i","t","i","a","l">>,
    <<"l","a","b">>, <<"l","a","b","s">>, <<"m","a","l","e">>, <<"m","a","n">>,
    <<"m","a","n","a","g","e">>, <<"m","a","n","a","g","e","m","e","n","t">>, <<"o","f">>,
    <<"o","l","d">>, <<"o","n">>, <<"o","r">>, <<"p","a","t","i","e","n","t">>,
    <<"p","a","t","i","e","n","t","s">>, <<"p","e","d","i","a","t","r","i","c">>,
    <<"p","e","d","s">>, <<"p","o","s","s","i","b","l","e">>, <<"s","h","o","u","l","d">>,
    <<"s","u","s","p","e","c","t","e","d">>, <<"t","h","e">>, <<"t","o">>,
    <<"t","r","e","a","t">>, <<"t","r","e","a","t","m","e","n","t">>,
    <<"t","r","e","a","t","m","e","n","t","s">>, <<"v","e","r","s","u","s">>, <<"v","s">>,
    <<"w","a","y">>, <<"w","a","y","s">>, <<"w","h","a","t">>, <<"w","h","e","n">>,
    <<"w","h","y">>, <<"w","i","t","h">>, <<"w","i","t","h","o","u","t">>,
    <<"w","o","m","a","n">>, <<"w","o","r","k","u","p">>, <<"w","o","u","l","d">>,
    <<"y","/","o">>, <<"y","e","a","r">>, <<"y","o">> }

\* SYNONYMS (app.py:87-97) in dictionary order: <<abbreviation, expansion>>.
SYNONYMS ==
  << <<<<"d","k","a">>,
       <<"d","i","a","b","e","t","i","c"," ","k","e","t","o","a","c","i","d","o","s","i","s">>>>,
     <<<<"p","e">>,
       <<"p","u","l","m","o","n","a","r","y"," ","e","m","b","o","l","i","s","m">>>>,
     <<<<"a","c","s">>,
       <<"a","c","u","t","e"," ","c","o","r","o","n","a","r","y"," ","s","y","n","d","r","o","m","e">>>>,
     <<<<"i","c","h">>,
       <<"i","n","t","r","a","c","e","r","e","b","r","a","l"," ","h","e","m","o","r","r","h","a","g","e">>>>,
     <<<<"t","b","i">>,
       <<"t","r","a","u","m","a","t","i","c"," ","b","r","a","i","n"," ","i","n","j","u","r","y">>>>,
     <<<<"u","t","i">>,
       <<"u","r","i","n","a","r","y"," ","t","r","a","c","t"," ","i","n","f","e","c","t","i","o","n">>>>,
     <<<<"c","o","p","d">>,
       <<"c","h","r","o","n","i","c"," ","o","b","s","t","r","u","c","t","i","v","e"," ","p","u","l","m","o","n","a","r","y"," ","d","i","s","e","a","s","e">>>>,
     <<<<"a","f","i","b">>,
       <<"a","t","r","i","a","l"," ","f","i","b","r","i","l","l","a","t","i","o","n">>>>,
     <<<<"r","v","r">>,
       <<"r","a","p","i","d"," ","v","e","n","t","r","i","c","u","l","a","r"," ","r","e","s","p","o","n","s","e">>>> >>

\* samples (app.py:44-50): the quick prompts.
samples ==
  << <<"C","h","e","s","t"," ","p","a","i","n",","," ","r","u","l","e","-","o","u","t"," ","A","C","S"," ","w","i","t","h"," ","h","i","g","h","-","s","e","n","s","i","t","i","v","i","t","y"," ","t","r","o","p","o","n","i","n"," ","i","n"," ","t","h","e"," ","E","D">>,
     <<"S","u","s","p","e","c","t","e","d"," ","p","u","l","m","o","n","a","r","y"," ","e","m","b","o","l","i","s","m",","," ","w","h","e","n"," ","t","o"," ","i","m","a","g","e"," ","v","s"," ","D","-","d","i","m","e","r">>,
     <<"S","e","p","s","i","s"," ","i","n","i","t","i","a","l"," ","b","u","n","d","l","e"," ","i","n"," ","t","h","e"," ","E","D",","," ","a","n","t","i","b","i","o","t","i","c","s"," ","a","n","d"," ","f","l","u","i","d","s">>,
     <<"N","e","w","-","o","n","s","e","t"," ","a","t","r","i","a","l"," ","f","i","b","r","i","l","l","a","t","i","o","n"," ","w","i","t","h"," ","R","V","R",","," ","r","a","t","e"," ","v","s"," ","r","h","y","t","h","m"," ","a","n","d"," ","d","i","s","p","o","s","i","t","i","o","n">>,
     <<"D","K","A"," ","i","n","i","t","i","a","l"," ","m","a","n","a","g","e","m","e","n","t",","," ","p","o","t","a","s","s","i","u","m"," ","a","n","d"," ","i","n","s","u","l","i","n">> >>

\* uniq[:6]
KeyCap == 6

\* the for loop over SYNONYMS.items(): each substitution applied to the result
\* of the one before
RECURSIVE ExpandSynonyms(_, _)
ExpandSynonyms(raw, n) ==
  IF n > Len(SYNONYMS) THEN raw
  ELSE ExpandSynonyms(SubWord(raw, SYNONYMS[n][1], SYNONYMS[n][2]), n + 1)

\* re.sub(r"[^a-z0-9\s]", " ", raw)
CleanChars(raw) ==
  [i \in 1..Len(raw) |->
     IF raw[i] \in LowerChars \cup Digits \cup WhiteSpace THEN raw[i] ELSE " "]

\* the seen/uniq loop: first occurrences, in order
RECURSIVE Dedup(_, _)
Dedup(tokens, seen) ==
  IF tokens = <<>> THEN <<>>
  ELSE IF Head(tokens) \in seen THEN Dedup(Tail(tokens), seen)
  ELSE <<Head(tokens)>> \o Dedup(Tail(tokens), seen \cup {Head(tokens)})

\* make_pubmed_term, lines 108-113: the words of the stripped question q before
\* the stopwords are dropped
Words(q) ==
  LET raw     == ExpandSynonyms(Lower(q), 1)
      cleaned == CleanChars(raw)
  IN  Split(cleaned)

\* make_pubmed_term, lines 108-122: the key terms of the stripped question q
KeyTerms(q) ==
  LET tokens == SelectSeq(Words(q), LAMBDA t : t \notin STOPWORDS)
      uniq   == Dedup(tokens, {})
  IN  PySlice(uniq, 0, KeyCap)

TiabSuffix == <<"[","t","i","a","b","]">>
OrSep      == <<" ","O","R"," ">>

\* make_pubmed_term, lines 104-122: the key terms it extracts from q0
ExtractKey(q0) ==
  LET q == Strip(q0)
  IN  IF q = <<>> THEN <<>> ELSE KeyTerms(q)

\* a plausible slip: the fallback quotes the question
make_pubmed_term_quoted(q0) ==
  LET q == Strip(q0)
  IN  IF q = <<>> THEN <<>>
      ELSE LET key          == KeyTerms(q)
               tiab_or      == Join([i \in 1..Len(key) |-> key[i] \o TiabSuffix], OrSep)
               raw_fallback == Join(key, <<" ">>)
           IN  IF key # <<>>
               THEN <<"(">> \o tiab_or \o <<")">> \o OrSep \o <<"(">> \o raw_fallback \o <<")">>
               ELSE <<"\"">> \o q \o <<"\"">>

make_pubmed_term(q0) ==
  LET q == Strip(q0)
  IN  IF q = <<>> THEN <<>>
      ELSE LET key          == KeyTerms(q)
               tiab_or      == Join([i \in 1..Len(key) |-> key[i] \o TiabSuffix], OrSep)
               raw_fallback == Join(key, <<" ">>)
           IN  IF key # <<>>
               THEN <<"(">> \o tiab_or \o <<")">> \o OrSep \o <<"(">> \o raw_fallback \o <<")">>
               ELSE q

-----------------------------------------------------------------------------
(* PubMed helpers: retrieval                                               *)

\* re.findall(r"[A-Za-z0-9]+", q)[:8]
RawCap == 8

AndSep        == <<" ","A","N","D"," ">>
TitleAbstract == <<"[","T","i","t","l","e","/","A","b","s","t","r","a","c","t","]">>

\* pubmed_search, lines 138-150: the candidate list of the stripped term q
Candidates(q) ==
  LET cooked == make_pubmed_term(q)
  IN  << cooked,
         Replace(cooked, AndSep, OrSep),
         Replace(cooked, TitleAbstract, TiabSuffix),
         Join(PySlice(FindAllAlnum(q), 0, RawCap), <<" ">>),
         q >>

\* str.rstrip(".")
RECURSIVE RStripDots(_)
RStripDots(s) ==
  IF s # <<>> /\ s[Len(s)] = "." THEN RStripDots(SubSeq(s, 1, Len(s) - 1)) ELSE s

\* s.split(" ")[0]
BeforeFirstSpace(s) ==
  LET sp == {i \in 1..Len(s) : s[i] = " "}
  IN  IF sp = {} THEN s ELSE SubSeq(s, 1, (CHOOSE i \in sp : \A j \in sp : i <= j) - 1)

PubmedUrl(pmid) == <<"https://pubmed.ncbi.nlm.nih.gov/", pmid, "/">>

\* pubmed_summaries, lines 188-202. data is the "result" object of the ESummary
\* reply: a function from the identifiers it holds a non-empty item for to the item
RECURSIVE pubmed_summaries(_, _)
pubmed_summaries(ids, data) ==
  IF ids = <<>> THEN <<>>
  ELSE LET pmid == Head(ids)
           rest == pubmed_summaries(Tail(ids), data)
       IN  IF pmid \notin DOMAIN data THEN rest
           ELSE <<[pmid    |-> pmid,
                   title   |-> RStripDots(Strip(data[pmid].title)),
                   journal |-> data[pmid].fulljournalname,
                   year    |-> BeforeFirstSpace(data[pmid].pubdate),
                   url     |-> PubmedUrl(pmid)]>> \o rest

Range(s) == {s[i] : i \in 1..Len(s)}

\* a Python dict as a function; d.get(k) or ""
EmptyDict == [k \in {} |-> <<>>]
GetOrEmpty(d, k) == IF k \in DOMAIN d THEN d[k] ELSE <<>>
DictSet(d, k, v) == [x \in DOMAIN d \cup {k} |-> IF x = k THEN v ELSE d[x]]

\* lines 232-238: the abs_parts of one PubmedArticle. A segment is
\* [label |-> <<>> or <<l>>, txt |-> the text of the AbstractText element]
RECURSIVE AbsParts(_)
AbsParts(segs) ==
  IF segs = <<>> THEN <<>>
  ELSE LET a   == Head(segs)
           txt == Strip(a.txt)
       IN  IF txt = <<>> THEN AbsParts(Tail(segs))
           ELSE <<IF a.label # <<>> THEN a.label[1] \o <<":", " ">> \o txt ELSE txt>>
                \o AbsParts(Tail(segs))

\* lines 224-243: the loop over the PubmedArticle elements of the EFetch
\* document. An article is [pmid |-> the stripped PMID text ("" when missing),
\* segs |-> its AbstractText elements]
RECURSIVE AbstractsLoop(_, _)
AbstractsLoop(doc, out) ==
  IF doc = <<>> THEN out
  ELSE LET article   == Head(doc)
           abs_parts == AbsParts(article.segs)
       IN  IF article.pmid = "" \/ abs_parts = <<>>
           THEN AbstractsLoop(Tail(doc), out)
           ELSE AbstractsLoop(Tail(doc), DictSet(out, article.pmid, Join(abs_parts, <<"\n">>)))

\* a plausible slip: every requested identifier is given a key
pubmed_abstracts_total(ids, doc) ==
  IF ids = <<>> THEN EmptyDict
  ELSE LET found == AbstractsLoop(doc, EmptyDict)
       IN  [p \in DOMAIN found \cup Range(ids) |-> GetOrEmpty(found, p)]

\* pubmed_abstracts on a successful EFetch reply doc
pubmed_abstracts(ids, doc) ==
  IF ids = <<>> THEN EmptyDict ELSE AbstractsLoop(doc, EmptyDict)

-----------------------------------------------------------------------------
(* Evidence assembly                                                       *)

\* line 264 and line 358: the text returned for no lines
Sentinel == [fixed |-> "No PubMed results returned.", lines |-> <<>>]

\* "\n".join(lines): each line is kept as the values its f-string interpolates,
\* the summary and, when there is one, the truncated abstract
JoinedLines(lines) == [fixed |-> "", lines |-> lines]

\* abstract_chars=900
AbstractChars == 900

\* lines 251-262: the line of one summary
ContextLine(h, abstracts, abstract_chars) ==
  LET ab == Strip(GetOrEmpty(abstracts, h.pmid))
  IN  IF ab # <<>>
      THEN [h |-> h, abstract |-> <<RStrip(PySlice(ab, 0, abstract_chars))>>]
      ELSE [h |-> h, abstract |-> <<>>]

\* a plausible slip: the allowed list is taken from all the summaries
build_metadata_context_all(sums, abstracts, max_items, abstract_chars) ==
  LET use   == PySlice(sums, 0, max_items)
      lines == [i \in 1..Len(use) |-> ContextLine(use[i], abstracts, abstract_chars)]
      allowed == [i \in 1..Len(sums) |-> sums[i].pmid]
  IN  << IF lines # <<>> THEN JoinedLines(lines) ELSE Sentinel, allowed >>

\* build_metadata_context: <<the text, allowed_pmids>>
build_metadata_context(sums, abstracts, max_items, abstract_chars) ==
  LET use   == PySlice(sums, 0, max_items)
      lines == [i \in 1..Len(use) |-> ContextLine(use[i], abstracts, abstract_chars)]
      allowed == [i \in 1..Len(use) |-> use[i].pmid]
  IN  << IF lines # <<>> THEN JoinedLines(lines) ELSE Sentinel, allowed >>

-----------------------------------------------------------------------------
(* Answer generation                                                       *)

ModeWorkup    == "Workup/Treatment/Disposition"
ModeDischarge == "Discharge instructions (patient-friendly)"
Modes == {ModeWorkup, ModeDischarge}

SystemPrompt == "You are an emergency medicine attending helping another ED clinician on shift. ..."

\* ", ".join(allowed_pmids) if allowed_pmids else "none"
AllowedStr(allowed) == IF allowed # <<>> THEN allowed ELSE <<"none">>

\* a plausible slip: messages[-5:]
PriorWindow_Last5(msgs) == PySlice(msgs, 0 - 5, Len(msgs))

\* messages[-6:-1]
PriorWindow(msgs) == PySlice(msgs, 0 - 6, 0 - 1)

\* lines 288-328: the request generate_answer sends. The user message is kept
\* as the values its template interpolates
CompletionRequest(prior_messages, question, context, allowed, mode) ==
  LET user == [question |-> question, meta_context |-> context,
               allowed_str |-> AllowedStr(allowed), mode |-> mode]
  IN  [messages   |-> <<[role |-> "system", content |-> SystemPrompt]>>
                      \o prior_messages
                      \o <<[role |-> "user", content |-> user]>>,
       max_tokens |-> IF mode = ModeDischarge THEN 350 ELSE 450]

-----------------------------------------------------------------------------
(* Bounds and the inputs of the session                                    *)

MaxMessages == 7    \* a turn starts only while the transcript is shorter than this
MaxSamples  == 1    \* how many of the quick prompts the user picks from

None == <<>>

Placeholder == <<"S","e","l","e","c","t"," ","a"," ","s","a","m","p","l","e",".",".",".">>
SampleChoices == {samples[i] : i \in 1..Min2(MaxSamples, Len(samples))}

\* what the user types into st.chat_input
TypedInputs == { <<" ","?">>, <<" ">> }

\* st.slider("PubMed results to pull", 3, 10, 5) left at its default
RetmaxDefault == 5
RetmaxChoices == {RetmaxDefault}

\* identifiers the article service answers with
PMIDS == {"11111111", "22222222"}
IdLists == {<<>>, <<"11111111">>, <<"11111111", "22222222">>}

\* items of an ESummary reply
ItemFull == [title |-> <<" ","T",".">>, fulljournalname |-> <<"J">>,
             pubdate |-> <<"2","0","2","0"," ","J","a","n">>]
ItemBare == [title |-> <<>>, fulljournalname |-> <<>>, pubdate |-> <<>>]
SummaryReplies(ids) ==
  {[p \in S |-> ItemFull] : S \in SUBSET Range(ids)} \cup {[p \in Range(ids) |-> ItemBare]}

\* AbstractText elements of an EFetch reply
SegPlain    == [label |-> <<>>, txt |-> <<"a","b"," ">>]
SegLabelled == [label |-> <<<<"B","G">>>>, txt |-> <<" ","c","d">>]
SegBlank    == [label |-> <<>>, txt |-> <<" ">>]
AbstractReplies(ids) ==
  { <<>>,
    [i \in 1..Len(ids) |-> [pmid |-> ids[i], segs |-> <<>>]],
    [i \in 1..Len(ids) |-> [pmid |-> ids[i], segs |-> <<SegLabelled, SegPlain>>]] }

\* texts the completion service answers with
Answers == { <<"o","k">> }

NoText == [fixed |-> "", lines |-> <<>>]
NoFn   == [f |-> "none"]

-----------------------------------------------------------------------------
(* The session: Streamlit script runs and the steps of a turn              *)

search_locals == <<candidates, idx, calls, replies, cache_hit, pmids>>
later_locals  == <<summaries, abstract_map, meta_context, allowed_pmids, request>>
fn_vars       == <<fn_in, fn_out>>

\* lines 24-30; the first script run renders the quick-prompt selectbox
SessionInit ==
  /\ messages = <<>>
  /\ pending_prompt = None
  /\ last_hits = None
  /\ quick_shown = TRUE
  /\ pc = "idle"
  /\ prompt = <<>>
  /\ retmax = 0
  /\ candidates = <<>>
  /\ idx = 0
  /\ calls = <<>>
  /\ replies = <<>>
  /\ cache_hit = FALSE
  /\ pmids = <<>>
  /\ summaries = <<>>
  /\ abstract_map = EmptyDict
  /\ meta_context = NoText
  /\ allowed_pmids = <<>>
  /\ request = <<>>
  /\ outcome = "none"
  /\ before = <<>>

Init ==
  /\ SessionInit
  /\ fn_in = NoFn
  /\ fn_out = <<>>

\* the script run is over: its locals are gone, the session state stays
EndRun(how) ==
  /\ pc' = "idle"
  /\ outcome' = how
  /\ retmax' = 0
  /\ candidates' = <<>>
  /\ idx' = 0
  /\ calls' = <<>>
  /\ replies' = <<>>
  /\ cache_hit' = FALSE
  /\ pmids' = <<>>
  /\ summaries' = <<>>
  /\ abstract_map' = EmptyDict
  /\ meta_context' = NoText
  /\ allowed_pmids' = <<>>
  /\ request' = <<>>

\* an uncaught exception ends the script run; what was appended stays appended
Abort(how) ==
  /\ EndRun(how)
  /\ UNCHANGED <<messages, pending_prompt, last_hits, quick_shown, prompt, before>>
  /\ UNCHANGED fn_vars

\* _on_pick_sample, lines 52-55, run by the selectbox rendered at lines 57-63
OnPickSample ==
  /\ pc = "idle"
  /\ quick_shown
  /\ \E sel \in SampleChoices \cup {Placeholder} :
       pending_prompt' = IF sel # <<>> /\ sel # Placeholder THEN <<sel>> ELSE pending_prompt
  /\ UNCHANGED <<messages, last_hits, quick_shown, pc, prompt, retmax, outcome, before>>
  /\ UNCHANGED <<search_locals, later_locals, fn_vars>>

\* a plausible slip: Clear chat forgets the pending prompt
ClearChat_KeepPending ==
  /\ pc = "idle"
  /\ messages' = <<>>
  /\ pending_prompt' = pending_prompt
  /\ last_hits' = None
  /\ quick_shown' = TRUE
  /\ prompt' = <<>>
  /\ before' = <<>>
  /\ EndRun("cleared")
  /\ UNCHANGED fn_vars

\* "Clear chat", lines 66-71, and the script run st.rerun() starts. (When the
\* selectbox was rendered in this run Streamlit refuses line 70; lines 67-69 have
\* run by then and the session state is the same.)
ClearChat ==
  /\ pc = "idle"
  /\ messages' = <<>>
  /\ pending_prompt' = None
  /\ last_hits' = None
  /\ quick_shown' = TRUE
  /\ prompt' = <<>>
  /\ before' = <<>>
  /\ EndRun("cleared")
  /\ UNCHANGED fn_vars

\* a script run that reaches the chat input, lines 337-349: typed is None or
\* <<the text>>
ChatRun ==
  /\ pc = "idle"
  /\ \E typed \in {None} \cup {<<t>> : t \in TypedInputs}, rm \in RetmaxChoices :
       LET stripped == IF typed # None /\ typed[1] # <<>> THEN Strip(typed[1]) ELSE <<>>
           take     == stripped = <<>> /\ pending_prompt # None /\ pending_prompt[1] # <<>>
           p        == IF take THEN pending_prompt[1] ELSE stripped
       IN  /\ pending_prompt' = IF take THEN None ELSE pending_prompt
           /\ quick_shown' = (Len(messages) = 0)
           /\ IF p # <<>>
              THEN /\ Len(messages) < MaxMessages
                   /\ messages' = Append(messages, [role |-> "user", content |-> p])
                   /\ prompt' = p
                   /\ retmax' = rm
                   /\ before' = messages
                   /\ outcome' = "running"
                   /\ pc' = "search"
              ELSE UNCHANGED <<messages, prompt, retmax, before, outcome, pc>>
  /\ UNCHANGED <<last_hits, search_locals, later_locals, fn_vars>>

turn_vars == <<messages, pending_prompt, last_hits, quick_shown, prompt, retmax,
               outcome, before>>

\* pubmed_search is entered, lines 133-150. st.cache_data answers from its
\* cache, which outlives the session, or the body runs
SearchBegin ==
  /\ pc = "search"
  /\ \/ /\ \E ids \in IdLists : pmids' = ids
        /\ cache_hit' = TRUE
        /\ pc' = "summaries"
        /\ UNCHANGED <<candidates, idx>>
     \/ /\ LET q == Strip(prompt)
           IN  IF q = <<>>
               THEN pmids' = <<>> /\ pc' = "summaries" /\ UNCHANGED <<candidates, idx>>
               ELSE /\ candidates' = Candidates(q)
                    /\ idx' = 1
                    /\ pc' = "search_loop"
                    /\ UNCHANGED pmids
        /\ UNCHANGED cache_hit
  /\ UNCHANGED <<calls, replies>>
  /\ UNCHANGED <<turn_vars, later_locals, fn_vars>>

\* lines 152-155: a candidate that is empty once stripped
SearchSkip ==
  /\ pc = "search_loop"
  /\ idx <= Len(candidates)
  /\ Strip(candidates[idx]) = <<>>
  /\ idx' = idx + 1
  /\ UNCHANGED <<candidates, calls, replies, cache_hit, pmids, pc>>
  /\ UNCHANGED <<turn_vars, later_locals, fn_vars>>

\* a plausible slip: the loop does not stop at a non-empty reply
SearchCall_KeepGoing ==
  /\ pc = "search_loop"
  /\ idx <= Len(candidates)
  /\ Strip(candidates[idx]) # <<>>
  /\ \/ /\ calls' = Append(calls, Strip(candidates[idx]))
        /\ \E ids \in IdLists :
             /\ replies' = Append(replies, ids)
             /\ pmids' = IF ids # <<>> THEN ids ELSE pmids
             /\ pc' = pc
             /\ idx' = idx + 1
        /\ UNCHANGED <<candidates, cache_hit>>
        /\ UNCHANGED <<turn_vars, later_locals, fn_vars>>
     \/ Abort("search_failed")

\* lines 157-171: the ESearch request for a candidate and its reply
SearchCall ==
  /\ pc = "search_loop"
  /\ idx <= Len(candidates)
  /\ Strip(candidates[idx]) # <<>>
  /\ \/ /\ calls' = Append(calls, Strip(candidates[idx]))
        /\ \E ids \in IdLists :
             /\ replies' = Append(replies, ids)
             /\ IF ids # <<>>
                THEN pmids' = ids /\ pc' = "summaries" /\ idx' = idx
                ELSE pmids' = pmids /\ pc' = pc /\ idx' = idx + 1
        /\ UNCHANGED <<candidates, cache_hit>>
        /\ UNCHANGED <<turn_vars, later_locals, fn_vars>>
     \/ Abort("search_failed")

\* line 173
SearchExhausted ==
  /\ pc = "search_loop"
  /\ idx > Len(candidates)
  /\ pmids' = <<>>
  /\ pc' = "summaries"
  /\ UNCHANGED <<candidates, idx, calls, replies, cache_hit>>
  /\ UNCHANGED <<turn_vars, later_locals, fn_vars>>

\* line 354: pubmed_summaries(pmids); the frame of pubmed_search is gone
Summarize ==
  /\ pc = "summaries"
  /\ \/ /\ IF pmids = <<>>
           THEN summaries' = <<>>
           ELSE \E data \in SummaryReplies(pmids) : summaries' = pubmed_summaries(pmids, data)
        /\ pc' = "evidence"
        /\ candidates' = <<>> /\ idx' = 0 /\ calls' = <<>> /\ replies' = <<>>
        /\ cache_hit' = FALSE
        /\ UNCHANGED <<pmids, abstract_map, meta_context, allowed_pmids, request>>
        /\ UNCHANGED <<turn_vars, fn_vars>>
     \/ /\ pmids # <<>>
        /\ Abort("summaries_failed")

\* a plausible slip: no summaries ends the turn as an error
NoSummaries_Abort ==
  /\ pc = "evidence"
  /\ summaries = <<>>
  /\ Abort("no_results")

\* lines 356-359
NoSummaries ==
  /\ pc = "evidence"
  /\ summaries = <<>>
  /\ meta_context' = Sentinel
  /\ allowed_pmids' = <<>>
  /\ abstract_map' = EmptyDict
  /\ pc' = "generate"
  /\ UNCHANGED <<summaries, request>>
  /\ UNCHANGED <<turn_vars, search_locals, fn_vars>>

\* lines 360-379
FetchAndBuild ==
  /\ pc = "evidence"
  /\ summaries # <<>>
  /\ \E include_abstracts \in BOOLEAN :
       LET shown      == PySlice(summaries, 0, retmax)
           show_pmids == [i \in 1..Len(shown) |-> shown[i].pmid]
       IN  \/ /\ IF include_abstracts
                 THEN \E doc \in AbstractReplies(show_pmids) :
                        abstract_map' = pubmed_abstracts(show_pmids, doc)
                 ELSE abstract_map' = EmptyDict
              /\ LET built == build_metadata_context(summaries, abstract_map', retmax,
                                                     AbstractChars)
                 IN  meta_context' = built[1] /\ allowed_pmids' = built[2]
              /\ pc' = "generate"
              /\ UNCHANGED <<summaries, request>>
              /\ UNCHANGED <<turn_vars, search_locals, fn_vars>>
           \/ /\ include_abstracts
              /\ Abort("abstracts_failed")

\* a plausible slip: the except branch appends an error placeholder
Caught_Placeholder(how) ==
  /\ EndRun(how)
  /\ messages' = Append(messages, [role |-> "assistant", content |-> <<"E","r","r","o","r">>])
  /\ UNCHANGED <<pending_prompt, last_hits, quick_shown, prompt, before>>
  /\ UNCHANGED fn_vars

\* a failure inside the try of lines 382-396: st.error, nothing appended
Caught(how) ==
  /\ EndRun(how)
  /\ UNCHANGED <<messages, pending_prompt, last_hits, quick_shown, prompt, before>>
  /\ UNCHANGED fn_vars

\* lines 383-384 and generate_answer up to the completion request
GenerateCall ==
  /\ pc = "generate"
  /\ \/ \E mode \in Modes :
          /\ request' = <<CompletionRequest(PriorWindow(messages), prompt, meta_context,
                                            allowed_pmids, mode)>>
          /\ pc' = "generating"
          /\ UNCHANGED <<summaries, abstract_map, meta_context, allowed_pmids>>
          /\ UNCHANGED <<turn_vars, search_locals, fn_vars>>
     \/ Caught("no_credential")

\* the completion service answers; lines 385-396
GenerateReturn ==
  /\ pc = "generating"
  /\ \/ \E answer \in Answers :
          /\ messages' = Append(messages, [role |-> "assistant", content |-> answer])
          /\ EndRun("answered")
          /\ UNCHANGED <<pending_prompt, last_hits, quick_shown, prompt, before>>
          /\ UNCHANGED fn_vars
     \/ Caught("completion_failed")

Next ==
  \/ OnPickSample
  \/ ClearChat
  \/ ChatRun
  \/ SearchBegin
  \/ SearchSkip
  \/ SearchCall
  \/ SearchExhausted
  \/ Summarize
  \/ NoSummaries
  \/ FetchAndBuild
  \/ GenerateCall
  \/ GenerateReturn

Spec == Init /\ [][Next]_vars

-----------------------------------------------------------------------------
(* The pure functions on inputs drawn from bounded sets                    *)

MaxPieces   == 3    \* questions are built from at most this many pieces
MaxArticles == 2    \* PubmedArticle elements in an EFetch reply
MaxSums     == 3    \* summaries handed to build_metadata_context
MaxItems    == 4    \* largest max_items tried

Pieces == { <<" ">>, <<"_">>, <<"?">>, <<"x">>, <<"p","e">>, <<"t","h","e">>,
            <<"A","n">>, <<"c","o","p","d">>, <<"r","v","r">> }
RECURSIVE PieceTexts(_)
PieceTexts(n) ==
  IF n = 0 THEN {<<>>}
  ELSE LET shorter == PieceTexts(n - 1)
       IN  shorter \cup {t \o p : t \in shorter, p \in Pieces}

TheAAn == <<"t","h","e"," ","a"," ","a","n">>
TermInputs == PieceTexts(MaxPieces) \cup Range(samples) \cup {TheAAn}

RECURSIVE SeqsUpTo(_, _)
SeqsUpTo(S, n) ==
  IF n = 0 THEN {<<>>}
  ELSE LET shorter == SeqsUpTo(S, n - 1)
       IN  shorter \cup {Append(s, x) : s \in shorter, x \in S}

FnArticles == [pmid : PMIDS \cup {""}, segs : {<<>>, <<SegBlank>>, <<SegLabelled, SegPlain>>}]
FnDocs     == SeqsUpTo(FnArticles, MaxArticles)

FnSummary(p) == [pmid |-> p, title |-> <<"T">>, journal |-> <<"J">>,
                 year |-> <<"2","0","2","0">>, url |-> PubmedUrl(p)]
FnSums     == SeqsUpTo({FnSummary(p) : p \in PMIDS \cup {"33333333"}}, MaxSums)
FnAbstracts == { EmptyDict,
                 [p \in {"11111111"} |-> <<" ","a","b"," ","c","d"," ">>] }

InitFn ==
  /\ SessionInit
  /\ fn_out = <<>>
  /\ \/ fn_in \in [f : {"term", "rekey"}, q : TermInputs]
     \/ fn_in \in [f : {"abstracts"}, ids : IdLists, doc : FnDocs]
     \/ fn_in \in [f : {"context"}, sums : FnSums, abstracts : FnAbstracts,
                   max_items : (0 - 1)..MaxItems, abstract_chars : {0, 2, AbstractChars}]

session_vars == <<messages, pending_prompt, last_hits, quick_shown, pc, prompt, retmax,
                  candidates, idx, calls, replies, cache_hit, pmids, summaries,
                  abstract_map, meta_context, allowed_pmids, request, outcome, before>>

ApplyTerm ==
  /\ fn_in.f = "term" /\ fn_out = <<>>
  /\ fn_out' = <<make_pubmed_term(fn_in.q)>>
  /\ UNCHANGED <<fn_in, session_vars>>

\* the key terms of a question, joined by single spaces and extracted again
ApplyRekey ==
  /\ fn_in.f = "rekey" /\ fn_out = <<>>
  /\ LET key == ExtractKey(fn_in.q)
     IN  fn_out' = <<[key |-> key, rekey |-> ExtractKey(Join(key, <<" ">>))]>>
  /\ UNCHANGED <<fn_in, session_vars>>

ApplyAbstracts ==
  /\ fn_in.f = "abstracts" /\ fn_out = <<>>
  /\ fn_out' = <<pubmed_abstracts(fn_in.ids, fn_in.doc)>>
  /\ UNCHANGED <<fn_in, session_vars>>

ApplyContext ==
  /\ fn_in.f = "context" /\ fn_out = <<>>
  /\ fn_out' = <<build_metadata_context(fn_in.sums, fn_in.abstracts, fn_in.max_items,
                                        fn_in.abstract_chars)>>
  /\ UNCHANGED <<fn_in, session_vars>>

NextFn ==
  \/ ApplyTerm
  \/ ApplyRekey
  \/ ApplyAbstracts
  \/ ApplyContext

SpecFn == InitFn /\ [][NextFn]_vars

FnDone(f) == fn_in.f = f /\ fn_out # <<>>

-----------------------------------------------------------------------------
(* Properties                                                              *)

UserEntry(text) == [role |-> "user", content |-> text]
Failures == {"search_failed", "summaries_failed", "abstracts_failed",
             "no_credential", "completion_failed"}

\* the candidates that are not empty once stripped, stripped, in list order
NonBlank(cs) == SelectSeq([i \in 1..Len(cs) |-> Strip(cs[i])], LAMBDA t : t # <<>>)
CountNonBlank(cs, n) == Cardinality({i \in 1..Min2(n, Len(cs)) : Strip(cs[i]) # <<>>})
AllEmpty(rs, n) == \A i \in 1..n : rs[i] = <<>>

\* the body of pubmed_search has returned (no cache hit)
SearchReturned == pc = "summaries" /\ ~cache_hit

(* C1, as the code has it: pubmed_search tries its candidates strictly in  *)
(* list order; a candidate that is empty once stripped is skipped without  *)
(* a request and every other candidate tried gets exactly one ESearch      *)
(* request; the search stops at the first non-empty reply and returns it;  *)
(* it returns the empty list when every request made came back empty.      *)
C1_RelaxationOrder ==
  /\ pc \in {"search_loop", "summaries"} /\ ~cache_hit =>
       /\ Len(candidates) = 5
       /\ candidates[1] = make_pubmed_term(prompt)
       /\ candidates[5] = Strip(prompt)
       /\ calls = SubSeq(NonBlank(candidates), 1, Len(calls))
       /\ Len(replies) = Len(calls)
  /\ pc = "search_loop" =>
       /\ Len(calls) = CountNonBlank(candidates, idx - 1)
       /\ AllEmpty(replies, Len(replies))
  /\ SearchReturned =>
       /\ AllEmpty(replies, Len(replies) - 1)
       /\ IF pmids # <<>>
          THEN /\ idx <= Len(candidates)
               /\ Len(calls) = CountNonBlank(candidates, idx)
               /\ replies[Len(replies)] = pmids
          ELSE /\ idx > Len(candidates)
               /\ calls = NonBlank(candidates)
               /\ AllEmpty(replies, Len(replies))
  /\ pc = "summaries" /\ cache_hit => calls = <<>>

\* C1, witness: only the last candidate answered, and a blank one was skipped
C1_LastCandidateAfterSkip ==
  /\ SearchReturned /\ pmids # <<>>
  /\ idx = Len(candidates)
  /\ Strip(candidates[4]) = <<>>
  /\ Len(calls) = 4 /\ AllEmpty(replies, 3) /\ replies[4] = pmids

(* C1, as stated: when only the last candidate yields results, one request *)
(* has been made for each candidate before it.                             *)
C1_OneCallPerPrecedingCandidate ==
  (SearchReturned /\ pmids # <<>> /\ idx = Len(candidates)) => Len(calls) - 1 = idx - 1

\* the articles of an EFetch document that carry a PMID and abstract text
WithText(doc) ==
  {doc[i].pmid : i \in {j \in 1..Len(doc) :
      /\ doc[j].pmid # ""
      /\ \E k \in 1..Len(doc[j].segs) : AllChars(doc[j].segs[k].txt) \ WhiteSpace # {}}}

(* C2, as stated: for a non-empty request and a successful reply, every    *)
(* requested identifier is a key of the mapping pubmed_abstracts returns.  *)
C2_EveryRequestedIdIsKey ==
  (FnDone("abstracts") /\ fn_in.ids # <<>>) => Range(fn_in.ids) \subseteq DOMAIN fn_out[1]

(* C2, as the code has it: the mapping has a key exactly for the articles  *)
(* of the reply that carry a PMID and at least one non-blank abstract      *)
(* segment, and no value is empty; a requested identifier without such an  *)
(* article is no key, and the callers' abstracts.get(pmid) or "" reads it  *)
(* as the empty string.                                                    *)
C2_KeysAreArticlesWithText ==
  (FnDone("abstracts") /\ fn_in.ids # <<>>) =>
     /\ DOMAIN fn_out[1] = WithText(fn_in.doc)
     /\ \A k \in DOMAIN fn_out[1] : fn_out[1][k] # <<>>
     /\ \A p \in Range(fn_in.ids) :
          (GetOrEmpty(fn_out[1], p) = <<>>) <=> (p \notin WithText(fn_in.doc))

\* C2, witness: one requested identifier got its abstract, another is no key
C2_RequestedIdWithoutKey ==
  /\ FnDone("abstracts")
  /\ \E p, r \in Range(fn_in.ids) : p \notin DOMAIN fn_out[1] /\ r \in DOMAIN fn_out[1]

(* C3, as stated: whatever the abstract fetch does, a turn that has        *)
(* summaries goes on to assemble its evidence and to generate_answer.      *)
C3_AbstractFailureStillGenerates ==
  [][(pc = "evidence" /\ summaries # <<>>) => pc' = "generate"]_vars

(* C4: a turn that failed, in retrieval or in generation, leaves the       *)
(* transcript as it was before the turn plus one user entry holding the    *)
(* turn's question; the same holds while the turn is running.              *)
C4_FailedTurnKeepsQuestionOnly ==
  (outcome \in Failures \cup {"running"}) => messages = Append(before, UserEntry(prompt))

\* C4, witness: the completion call of a later turn failed
C4_GenerationFailedAfterHistory ==
  pc = "idle" /\ outcome = "completion_failed" /\ Len(before) >= 2

(* C5: for max_items >= 0 the allowed-PMID list of build_metadata_context  *)
(* is the identifiers of the first max_items summaries, in order.          *)
C5_AllowedIsPrefixOfSummaries ==
  (FnDone("context") /\ fn_in.max_items >= 0) =>
     LET n == Min2(fn_in.max_items, Len(fn_in.sums))
     IN  /\ fn_out[1][2] = [i \in 1..n |-> fn_in.sums[i].pmid]
         /\ Range(fn_out[1][2]) \subseteq {fn_in.sums[i].pmid : i \in 1..Len(fn_in.sums)}

\* C5, witness: max_items cut summaries off
C5_SummariesCutOff ==
  /\ FnDone("context")
  /\ fn_in.max_items >= 1 /\ fn_in.max_items < Len(fn_in.sums)
  /\ Len(fn_out[1][2]) = fn_in.max_items

LastMessage(r) == r.messages[Len(r.messages)]

C6_EmptyEvidenceState ==
  /\ (pc = "generate" /\ summaries = <<>>) =>
        /\ meta_context = Sentinel
        /\ allowed_pmids = <<>>
        /\ outcome = "running"
  /\ (pc = "generating" /\ summaries = <<>>) =>
        /\ LastMessage(request[1]).content.meta_context = Sentinel
        /\ LastMessage(request[1]).content.allowed_str = <<"none">>
C6_EmptyStillGenerates ==
  (pc = "evidence" /\ summaries = <<>>) => (pc' = "generate" /\ outcome' = "running")

(* C6: a turn whose retrieval ends with no summaries goes on to            *)
(* generate_answer, not to an error, and hands it the sentinel text        *)
(* "No PubMed results returned." and the empty allowed-PMID list.          *)
C6_NoSummariesSentinel ==
  []C6_EmptyEvidenceState /\ [][C6_EmptyStillGenerates]_vars

\* C6, witness: identifiers were found, the summary lookup dropped them all,
\* and the completion request carries the sentinel
C6_AllIdentifiersDropped ==
  /\ pc = "generating" /\ pmids # <<>> /\ summaries = <<>>
  /\ LastMessage(request[1]).content.meta_context = Sentinel

(* C7, as stated: the key terms of a question, joined by single spaces and *)
(* run through the same extraction, give the same key-term set.            *)
C7_RenormalizeSameKeySet ==
  FnDone("rekey") => Range(fn_out[1].rekey) = Range(fn_out[1].key)

QuoteChar == "\""
Contains(s, sub) ==
  \E i \in 1..(Len(s) - Len(sub) + 1) : SubSeq(s, i, i + Len(sub) - 1) = sub

\* the question has words and every one of them is a stopword
OnlyStopwords(q0) ==
  /\ Words(Strip(q0)) # <<>>
  /\ \A t \in Range(Words(Strip(q0))) : t \in STOPWORDS

(* C8, as stated: a non-empty question whose tokens are all stopwords      *)
(* yields a non-empty query built from the quoted question.                *)
C8_FallbackIsQuotedQuestion ==
  (FnDone("term") /\ OnlyStopwords(fn_in.q)) =>
     /\ fn_out[1] # <<>>
     /\ Contains(fn_out[1], <<QuoteChar>> \o Strip(fn_in.q) \o <<QuoteChar>>)

(* C8, as the code has it: a question with no key terms yields the         *)
(* stripped question itself, unquoted and in its own case; the query is    *)
(* non-empty exactly when the question has a non-whitespace character.     *)
C8_FallbackIsStrippedQuestion ==
  (FnDone("term") /\ ExtractKey(fn_in.q) = <<>>) =>
     /\ fn_out[1] = Strip(fn_in.q)
     /\ (fn_out[1] # <<>>) <=> (AllChars(fn_in.q) \ WhiteSpace # {})

\* C8, witness: "the a an"
C8_TheAAn ==
  FnDone("term") /\ fn_in.q = TheAAn /\ OnlyStopwords(fn_in.q) /\ fn_out[1] = TheAAn

(* C9: the prior messages in the completion request are the at most 5      *)
(* transcript entries right before the current question's entry, in order  *)
(* and unchanged; the current question is only in the final user message.  *)
C9_PriorWindow ==
  pc = "generating" =>
     LET conv == request[1].messages
         n    == Len(messages)
     IN  /\ messages[n] = UserEntry(prompt)
         /\ conv[1].role = "system"
         /\ SubSeq(conv, 2, Len(conv) - 1) = SubSeq(messages, Max2(1, n - 5), n - 1)
         /\ Len(conv) - 2 <= 5
         /\ conv[Len(conv)].role = "user"
         /\ conv[Len(conv)].content.question = prompt

\* C9, witness: the window left older entries out
C9_WindowTruncated ==
  pc = "generating" /\ Len(messages) >= 7 /\ Len(request[1].messages) = 7

C10_AssistantFollowsUser ==
  \A i \in 1..Len(messages) :
     messages[i].role = "assistant" => (i > 1 /\ messages[i - 1].role = "user")
C10_TranscriptStep ==
  messages' # messages =>
     \/ messages' = <<>> /\ pending_prompt' = None
     \/ /\ Len(messages') = Len(messages) + 1
        /\ SubSeq(messages', 1, Len(messages)) = messages
        /\ \/ messages'[Len(messages')].role = "user" /\ pc = "idle"
           \/ /\ messages'[Len(messages')].role = "assistant"
              /\ messages = Append(before, UserEntry(prompt))

(* C10: every assistant entry directly follows a user entry; a turn        *)
(* appends at most one assistant entry, right after its own user entry;    *)
(* the transcript changes only by an append at its end or by Clear chat    *)
(* emptying it, which also sets the pending prompt to None.                *)
C10_TranscriptDiscipline ==
  []C10_AssistantFollowsUser /\ [][C10_TranscriptStep]_vars

\* C10, witness: a failed turn, then an answered one, with a quick prompt pending
C10_MixedTranscriptPending ==
  /\ Len(messages) >= 3
  /\ \E i \in 2..(Len(messages) - 1) :
       /\ messages[i - 1].role = "user"
       /\ messages[i].role = "user"
       /\ messages[i + 1].role = "assistant"
  /\ pending_prompt # None

=============================================================================
